---- MODULE Spec2Model ----
(***************************************************************************)
(* Model of the khello character-device kernel module (src/khello2/khello.c)*)
(* and of the user-space callers that drive it (src/say_hello/say_hello.c,  *)
(* src/mmap_hello/mmap_hello.c).                                            *)
(*                                                                          *)
(* State: the module's statics (g_data, g_data_size, g_mutex, g_lock,       *)
(* g_class, g_device, g_data2), the kernel resources hello_init acquires,   *)
(* the page behind g_data2, and for every calling process its position in   *)
(* the file operation it is executing together with that call's locals.     *)
(*                                                                          *)
(* hello_init and hello_cleanup are single actions (the loader runs each to *)
(* completion before any file operation can reach the module).  dev_read    *)
(* and dev_write are split at every access to shared state, so that         *)
(* concurrent callers interleave as kernel threads do; memcpy and           *)
(* copy_to_user are one step each, since nothing reads g_data outside the   *)
(* mutex.  dev_poll and dev_mmap take no lock and are one action each.      *)
(* hello_cleanup runs only when no file and no mapping uses the module      *)
(* (.owner = THIS_MODULE keeps the use count).                              *)
(***************************************************************************)
EXTENDS Integers, Sequences, FiniteSets

\* ---------------------------------------------------------------- bounds
NumProcs == 2       \* concurrent calling processes
MaxShort == 1       \* requested write lengths 0..MaxShort ...
MaxOver == 1        \* ... and MaxWrite..MaxWrite+MaxOver (at and over the cap)
MaxResidual == 1    \* partial copy_to_user residuals 1..MaxResidual (and "all")
MaxMaps == 1        \* sessions a process may open on one module instance

\* ------------------------------------------------------ program constants
BufSize == 32       \* g_data[32]
MaxWrite == 31      \* if(p_size > 31) p_size = 31
PAGE_SIZE == 4096   \* one page, as the mmap clients see it
ClientMapLen == 32  \* mmap(NULL, 32, ...) in mmap_hello
EAGAIN == 11

Procs == 1..NumProcs
NoProc == 0
\* The owner of g_mutex when the task that locked it no longer exists.
DeadOwner == NumProcs + 1
Bytes == 0..255

POLLIN == 1          \* poll flag: data may be read
POLLOUT == 4         \* poll flag: writing will not block

VARIABLES
    mod,          \* "unloaded" | "live": whether the module is loaded
    init_fail,    \* which step of the last hello_init failed (0: none)
    init_ret,     \* what the last hello_init returned
    acq,          \* resources acquired by the last hello_init, in order
    rel,          \* resources released since the last hello_init, in order
    g_class,      \* "NULL" | "OK" | "ERR"
    g_device,     \* "NULL" | "OK" | "ERR"
    g_data2,      \* "NULL" | "PAGE"
    page_alloc,   \* the allocator's view: is the page behind g_data2 allocated
    page_mem,     \* what the page holds
    g_data,       \* [0..BufSize-1 -> Bytes]
    g_data_size,
    g_mutex,      \* NoProc, the process that holds g_mutex, or DeadOwner
    g_lock,       \* 0 | 1
    pc,           \* each process's position
    p_size,       \* each call's p_size (dev_write caps it in place)
    req,          \* the p_size the caller passed
    result,       \* dev_read's local result; in dev_mmap, what
                  \* remap_pfn_range returned
    ret,          \* what the last file operation returned to the process
    user_buf,     \* bytes copy_to_user stored in the caller's memory
    sess,         \* each process's mapping sessions on this module
                  \* instance, oldest first
    lastWrite     \* history: <<writer, length>> of the last write to unlock

vars == <<mod, init_fail, init_ret, acq, rel, g_class, g_device, g_data2,
          page_alloc, page_mem, g_data, g_data_size, g_mutex, g_lock, pc,
          p_size, req, result, ret, user_buf, sess, lastWrite>>

modVars == <<mod, init_fail, init_ret, acq, rel, g_class, g_device, g_data2,
             page_alloc>>
bufVars == <<g_data, g_data_size, g_mutex, g_lock, lastWrite>>
mapVars == <<sess, page_mem>>
callVars == <<p_size, req, result, ret, user_buf>>

\* ------------------------------------------------------------- helpers
Min(a, b) == IF a < b THEN a ELSE b

Reverse(s) == [i \in 1..Len(s) |-> s[Len(s) + 1 - i]]

Count(s, x) == Cardinality({i \in 1..Len(s) : s[i] = x})

\* The bytes a writer passes: process w's payload, byte i (all non-zero,
\* different for every writer and every position).
PayloadByte(w, i) == ((w * 64 + i * 3) % 255) + 1

\* The first n bytes of w's payload, as a sequence.
PayloadPrefix(w, n) == [i \in 1..n |-> PayloadByte(w, i - 1)]

\* The first n bytes of a buffer, as a sequence.
Prefix(buf, n) == [i \in 1..n |-> buf[i - 1]]

\* memset(g_data, 0, 32)
ZeroBuf == [i \in 0..(BufSize - 1) |-> 0]

\* The lengths callers ask dev_write to store: short ones, and the cap and
\* beyond (say_hello sends up to 32 bytes).
ReqLens == (0..MaxShort) \cup (MaxWrite..(MaxWrite + MaxOver))

\* What copy_to_user may leave uncopied out of n bytes: 0 (success), a few,
\* or all of them.
Residuals(n) == {r \in 0..n : r <= MaxResidual \/ r = n}

\* The size of the vma the kernel builds for a request of len bytes
\* (vm_end - vm_start is a whole number of pages).
PageAlign(len) == ((len + PAGE_SIZE - 1) \div PAGE_SIZE) * PAGE_SIZE

\* The lengths callers pass to mmap: the client's 32 bytes, one page, one
\* page plus one byte, two pages.
MapLens == {ClientMapLen, PAGE_SIZE, PAGE_SIZE + 1, 2 * PAGE_SIZE}

\* Processes that keep the module's use count above zero (.owner =
\* THIS_MODULE): an open file, or a mapping that still references the file.
OpenSessions(p) == {k \in 1..Len(sess[p]) : sess[p][k].state = "Open"}

ModuleUsers == {p \in Procs : pc[p] # "idle" \/ OpenSessions(p) # {}}

\* ------------------------------------------------- hello_init / cleanup
\* The straight-line part of hello_init up to do_exit, for a fault at step
\* f (0: none; 1 alloc_chrdev_region, 2 cdev_add, 3 class_create,
\* 4 device_create, 5 kmalloc).  result and progress are the function's
\* locals; got lists what was acquired, in order.
InitSteps(f) ==
    LET s0 == [result |-> -1, progress |-> 0, got |-> <<"mutex">>,
               class |-> "NULL", device |-> "NULL", data2 |-> "NULL"]
        s1 == IF f = 1 THEN [s0 EXCEPT !.result = -1]
              ELSE [s0 EXCEPT !.result = 0, !.got = Append(@, "region")]
        s2 == IF f = 1 THEN s1
              ELSE IF f = 2 THEN [s1 EXCEPT !.result = -1]
              ELSE [s1 EXCEPT !.result = 0, !.got = Append(@, "cdev"),
                              !.progress = @ + 1]
        s3 == IF f \in {1, 2} THEN s2
              ELSE IF f = 3 THEN [s2 EXCEPT !.class = "ERR"]
              ELSE [s2 EXCEPT !.class = "OK", !.got = Append(@, "class"),
                              !.progress = @ + 1]
        s4 == IF f \in {1, 2, 3} THEN s3
              ELSE IF f = 4 THEN [s3 EXCEPT !.device = "ERR"]
              ELSE [s3 EXCEPT !.device = "OK", !.got = Append(@, "device"),
                              !.progress = @ + 1]
        s5 == IF f \in {1, 2, 3, 4} THEN s4
              ELSE IF f = 5 THEN s4
              ELSE [s4 EXCEPT !.data2 = "PAGE", !.got = Append(@, "page"),
                              !.progress = @ + 1, !.result = 0]
    IN s5

\* The do_exit block of hello_init: what it releases, in order.
InitUnwind(res, progress) ==
    IF res < 0
    THEN LET a == IF progress >= 2 THEN <<"class">> ELSE <<>>
             p1 == IF progress >= 2 THEN 1 ELSE progress
             b == IF p1 = 1 THEN <<"cdev">> ELSE <<>>
             p2 == IF p1 = 1 THEN 0 ELSE p1
             c == IF p2 = 0 THEN <<"region">> ELSE <<>>
         IN a \o b \o c \o <<"mutex">>
    ELSE <<>>

InitFaults == 0..5

hello_init ==
    /\ mod = "unloaded"
    /\ \E f \in InitFaults :
         LET s == InitSteps(f) IN
         /\ init_fail' = f
         /\ init_ret' = s.result
         /\ acq' = s.got
         /\ rel' = InitUnwind(s.result, s.progress)
         /\ g_class' = s.class
         /\ g_device' = s.device
         /\ g_data2' = s.data2
         /\ page_alloc' = (s.data2 = "PAGE")
         /\ page_mem' = IF s.data2 = "PAGE" THEN "uninit" ELSE "none"
         /\ mod' = IF s.result < 0 THEN "unloaded" ELSE "live"
    /\ g_data' = ZeroBuf
    /\ g_data_size' = 0
    /\ g_mutex' = NoProc
    /\ g_lock' = 0
    /\ lastWrite' = <<NoProc, 0>>
    /\ UNCHANGED <<pc, callVars, sess>>

\* What hello_cleanup releases, in order.
CleanupReleases(data2) ==
    <<"device", "class", "cdev", "region", "mutex">>
        \o (IF data2 # "NULL" THEN <<"page">> ELSE <<>>)

hello_cleanup ==
    /\ mod = "live"
    /\ ModuleUsers = {}
    /\ mod' = "unloaded"
    /\ rel' = rel \o CleanupReleases(g_data2)
    /\ page_alloc' = IF g_data2 # "NULL" THEN FALSE ELSE page_alloc
    /\ page_mem' = IF g_data2 # "NULL" THEN "none" ELSE page_mem
    /\ sess' = [p \in Procs |-> <<>>]
    /\ UNCHANGED <<init_fail, init_ret, acq, g_class, g_device, g_data2,
                   bufVars, pc, callVars>>

\* ----------------------------------------------------- open / release
\* A process opens /dev/khello (dev_open always succeeds).
dev_open(p) ==
    /\ mod = "live"
    /\ pc[p] = "idle"
    /\ pc' = [pc EXCEPT ![p] = "opened"]
    /\ UNCHANGED <<modVars, bufVars, callVars, mapVars>>

\* close(fd): dev_release always succeeds and touches nothing.
dev_release(p) ==
    /\ pc[p] = "opened"
    /\ pc' = [pc EXCEPT ![p] = "idle"]
    /\ UNCHANGED <<modVars, bufVars, callVars, mapVars>>


\* Back from a system call: the call's locals are gone.
sys_return(p) ==
    /\ pc[p] \in {"w_ret", "r_ret", "poll_ret", "mmap_ret"}
    /\ pc' = [pc EXCEPT ![p] = "opened"]
    /\ p_size' = [p_size EXCEPT ![p] = 0]
    /\ req' = [req EXCEPT ![p] = 0]
    /\ result' = [result EXCEPT ![p] = 0]
    /\ ret' = [ret EXCEPT ![p] = 0]
    /\ user_buf' = [user_buf EXCEPT ![p] = <<>>]
    /\ UNCHANGED <<modVars, bufVars, mapVars>>

\* ------------------------------------------------------------ g_mutex
\* A lock that never waits.
mutex_lock_nowait(p) ==
    g_mutex' = p

\* A trylock whose failure is ignored.
mutex_lock_try(p) ==
    g_mutex' = IF g_mutex = NoProc THEN p ELSE g_mutex

mutex_lock(p) ==
    /\ g_mutex = NoProc
    /\ g_mutex' = p

mutex_unlock(p) ==
    g_mutex' = NoProc

\* ---------------------------------------------------------- dev_write
\* if(p_size > 31) p_size = 31;
\* The cap taken at the buffer's size instead of one below it.
CapSize_full(n) == IF n > BufSize THEN BufSize ELSE n

CapSize(n) == IF n > MaxWrite THEN MaxWrite ELSE n

\* memcpy(g_data, p_buf, p_size) with p_buf the payload of writer w
Memcpy(buf, w, n) ==
    [i \in 0..(BufSize - 1) |-> IF i < n THEN PayloadByte(w, i) ELSE buf[i]]

\* write(fd, msg, n) enters dev_write, which caps p_size before locking.
write_call(p) ==
    /\ pc[p] = "opened"
    /\ \E n \in ReqLens :
         /\ req' = [req EXCEPT ![p] = n]
         /\ p_size' = [p_size EXCEPT ![p] = CapSize(n)]
    /\ pc' = [pc EXCEPT ![p] = "w_lock"]
    /\ UNCHANGED <<modVars, bufVars, mapVars, result, ret, user_buf>>

write_lock(p) ==
    /\ pc[p] = "w_lock"
    /\ mutex_lock(p)
    /\ pc' = [pc EXCEPT ![p] = "w_flag"]
    /\ UNCHANGED <<modVars, g_data, g_data_size, g_lock, lastWrite, mapVars,
                   callVars>>

write_flag(p) ==
    /\ pc[p] = "w_flag"
    /\ g_lock' = 1
    /\ pc' = [pc EXCEPT ![p] = "w_copy"]
    /\ UNCHANGED <<modVars, g_data, g_data_size, g_mutex, lastWrite, mapVars,
                   callVars>>

write_copy(p) ==
    /\ pc[p] = "w_copy"
    /\ g_data' = Memcpy(g_data, p, p_size[p])
    /\ pc' = [pc EXCEPT ![p] = "w_term"]
    /\ UNCHANGED <<modVars, g_data_size, g_mutex, g_lock, lastWrite, mapVars,
                   callVars>>

\* memcpy reads the caller's pointer directly (no copy_from_user): when the
\* pointer is bad the kernel faults in the middle of the copy, after some of
\* the bytes, and ends the task where it stands -- inside the critical
\* section, g_mutex locked and g_lock set.
write_fault(p) ==
    /\ pc[p] = "w_copy"
    /\ \E r \in Residuals(p_size[p]) \ {0} :
         g_data' = Memcpy(g_data, p, p_size[p] - r)
    /\ g_mutex' = DeadOwner
    /\ pc' = [pc EXCEPT ![p] = "killed"]
    /\ UNCHANGED <<modVars, g_data_size, g_lock, lastWrite, mapVars,
                   callVars>>

\* The terminator forgotten.
write_term_none(p) ==
    /\ pc[p] = "w_term"
    /\ pc' = [pc EXCEPT ![p] = "w_size"]
    /\ UNCHANGED <<modVars, bufVars, mapVars, callVars>>

write_term(p) ==
    /\ pc[p] = "w_term"
    /\ g_data' = [g_data EXCEPT ![p_size[p]] = 0]
    /\ pc' = [pc EXCEPT ![p] = "w_size"]
    /\ UNCHANGED <<modVars, g_data_size, g_mutex, g_lock, lastWrite, mapVars,
                   callVars>>

write_size(p) ==
    /\ pc[p] = "w_size"
    /\ g_data_size' = p_size[p]
    /\ pc' = [pc EXCEPT ![p] = "w_unflag"]
    /\ UNCHANGED <<modVars, g_data, g_mutex, g_lock, lastWrite, mapVars,
                   callVars>>

write_unflag(p) ==
    /\ pc[p] = "w_unflag"
    /\ g_lock' = 0
    /\ pc' = [pc EXCEPT ![p] = "w_unlock"]
    /\ UNCHANGED <<modVars, g_data, g_data_size, g_mutex, lastWrite, mapVars,
                   callVars>>

\* mutex_unlock; return p_size;
write_unlock(p) ==
    /\ pc[p] = "w_unlock"
    /\ mutex_unlock(p)
    /\ ret' = [ret EXCEPT ![p] = p_size[p]]
    /\ lastWrite' = <<p, p_size[p]>>
    /\ pc' = [pc EXCEPT ![p] = "w_ret"]
    /\ UNCHANGED <<modVars, g_data, g_data_size, g_lock, mapVars, p_size, req,
                   result, user_buf>>

\* ----------------------------------------------------------- dev_read
\* The p_size a reader passes: less than a stored payload, and say_hello's 32.
ReadLens == {1, BufSize}

read_call(p) ==
    /\ pc[p] = "opened"
    /\ \E n \in ReadLens :
         /\ req' = [req EXCEPT ![p] = n]
         /\ p_size' = [p_size EXCEPT ![p] = n]
    /\ pc' = [pc EXCEPT ![p] = "r_lock"]
    /\ UNCHANGED <<modVars, bufVars, mapVars, result, ret, user_buf>>

read_lock(p) ==
    /\ pc[p] = "r_lock"
    /\ mutex_lock(p)
    /\ pc' = [pc EXCEPT ![p] = "r_flag"]
    /\ UNCHANGED <<modVars, g_data, g_data_size, g_lock, lastWrite, mapVars,
                   callVars>>

read_flag(p) ==
    /\ pc[p] = "r_flag"
    /\ g_lock' = 1
    /\ pc' = [pc EXCEPT ![p] = "r_copy"]
    /\ UNCHANGED <<modVars, g_data, g_data_size, g_mutex, lastWrite, mapVars,
                   callVars>>

\* How many bytes dev_read asks copy_to_user to move.
\* The count clipped to what the caller asked for.
ReadCount_asked(size, asked) == Min(size, asked)

ReadCount(size, asked) == size

\* result = copy_to_user(p_buf, g_data, g_data_size): the bytes NOT copied;
\* the caller's memory receives the bytes before the fault.
read_copy(p) ==
    /\ pc[p] = "r_copy"
    /\ LET n == ReadCount(g_data_size, p_size[p]) IN
       \E r \in Residuals(n) :
         /\ result' = [result EXCEPT ![p] = r]
         /\ user_buf' = [user_buf EXCEPT ![p] = Prefix(g_data, n - r)]
    /\ pc' = [pc EXCEPT ![p] = "r_unflag"]
    /\ UNCHANGED <<modVars, bufVars, mapVars, p_size, req, ret>>

\* The flag left set on the read path.
read_unflag_none(p) ==
    /\ pc[p] = "r_unflag"
    /\ pc' = [pc EXCEPT ![p] = "r_unlock"]
    /\ UNCHANGED <<modVars, bufVars, mapVars, callVars>>

read_unflag(p) ==
    /\ pc[p] = "r_unflag"
    /\ g_lock' = 0
    /\ pc' = [pc EXCEPT ![p] = "r_unlock"]
    /\ UNCHANGED <<modVars, g_data, g_data_size, g_mutex, lastWrite, mapVars,
                   callVars>>

\* mutex_unlock; return result;
read_unlock(p) ==
    /\ pc[p] = "r_unlock"
    /\ mutex_unlock(p)
    /\ ret' = [ret EXCEPT ![p] = result[p]]
    /\ pc' = [pc EXCEPT ![p] = "r_ret"]
    /\ UNCHANGED <<modVars, g_data, g_data_size, g_lock, lastWrite, mapVars,
                   p_size, req, result, user_buf>>


\* ----------------------------------------------------------- dev_poll
\* dev_poll's result for a stored length, a g_lock value and the value its
\* uninitialised local happens to hold: two plain assignments, the second
\* overwriting the first.
PollResult(size, lock, uninit) ==
    LET r1 == IF size > 0 THEN POLLIN ELSE uninit
        r2 == IF lock = 0 THEN POLLOUT ELSE r1
    IN r2

\* What `unsigned int result;` may hold, as far as these two flags go.
UninitMasks == {0, POLLIN, POLLOUT, POLLIN + POLLOUT}

\* A poll that takes g_mutex for the time of its reads.
dev_poll_locked(p) ==
    /\ pc[p] = "opened"
    /\ g_mutex = NoProc
    /\ \E u \in UninitMasks :
         ret' = [ret EXCEPT ![p] = PollResult(g_data_size, g_lock, u)]
    /\ pc' = [pc EXCEPT ![p] = "poll_ret"]
    /\ UNCHANGED <<modVars, bufVars, mapVars, p_size, req, result, user_buf>>

\* dev_poll takes no lock and reads g_data_size and g_lock as they are.
dev_poll(p) ==
    /\ pc[p] = "opened"
    /\ \E u \in UninitMasks :
         ret' = [ret EXCEPT ![p] = PollResult(g_data_size, g_lock, u)]
    /\ pc' = [pc EXCEPT ![p] = "poll_ret"]
    /\ UNCHANGED <<modVars, bufVars, mapVars, p_size, req, result, user_buf>>

\* ----------------------------------------------------------- dev_mmap
\* if(size > PAGE_SIZE) ... return -EAGAIN;
\* The comparison off by one.
SizeExceeded_ge(size) == size >= PAGE_SIZE

SizeExceeded(size) == size > PAGE_SIZE

\* dev_mmap without its own call of khello_vma_open.
khello_vma_open_none(s) == s

\* khello_vma_open / khello_vma_close only log; the model counts the calls.
khello_vma_open(s) == [s EXCEPT !.opens = @ + 1]

khello_vma_close(s) == [s EXCEPT !.closes = @ + 1]

\* The vma a successful remap_pfn_range leaves, before vm_ops->open.
NewSession ==
    [state |-> "Open", opens |-> 0, closes |-> 0]

\* What remap_pfn_range returns: 0, or a negative errno.
RemapResults == {0, -EAGAIN}

\* mmap(NULL, len, ...) on the device: the kernel builds a vma of whole
\* pages and calls dev_mmap; remap_pfn_range may fail.
dev_mmap(p) ==
    /\ pc[p] = "opened"
    /\ Len(sess[p]) < MaxMaps
    /\ \E len \in MapLens, remap \in RemapResults :
         LET size == PageAlign(len) IN
         /\ req' = [req EXCEPT ![p] = len]
         /\ IF SizeExceeded(size)
            THEN /\ ret' = [ret EXCEPT ![p] = -EAGAIN]
                 /\ result' = result
                 /\ sess' = sess
            ELSE /\ result' = [result EXCEPT ![p] = remap]
                 /\ IF remap # 0
                    THEN /\ ret' = [ret EXCEPT ![p] = -EAGAIN]
                         /\ sess' = sess
                    ELSE /\ ret' = [ret EXCEPT ![p] = 0]
                         /\ sess' = [sess EXCEPT ![p] =
                                Append(@, khello_vma_open(NewSession))]
    /\ pc' = [pc EXCEPT ![p] = "mmap_ret"]
    /\ UNCHANGED <<modVars, bufVars, page_mem, p_size, user_buf>>

\* munmap (or process exit) tears the vma down: vm_ops->close runs.
munmap(p) ==
    /\ pc[p] \in {"idle", "opened"}
    /\ \E k \in OpenSessions(p) :
         sess' = [sess EXCEPT ![p][k] =
                    [khello_vma_close(@) EXCEPT !.state = "Closed"]]
    /\ UNCHANGED <<modVars, bufVars, page_mem, pc, callVars>>

\* The kernel ends a task that faulted in kernel mode: its mappings are torn
\* down (vm_ops->close runs for each) and its file is released.
task_exit(p) ==
    /\ pc[p] = "killed"
    /\ pc' = [pc EXCEPT ![p] = "idle"]
    /\ sess' = [sess EXCEPT ![p] =
                  [k \in 1..Len(@) |->
                     IF @[k].state = "Open"
                     THEN [khello_vma_close(@[k]) EXCEPT !.state = "Closed"]
                     ELSE @[k]]]
    /\ p_size' = [p_size EXCEPT ![p] = 0]
    /\ req' = [req EXCEPT ![p] = 0]
    /\ result' = [result EXCEPT ![p] = 0]
    /\ ret' = [ret EXCEPT ![p] = 0]
    /\ user_buf' = [user_buf EXCEPT ![p] = <<>>]
    /\ UNCHANGED <<modVars, bufVars, page_mem>>

\* A mapping that exposes g_data instead of the page: the store lands in the
\* message buffer.
map_store_buf(p) ==
    /\ pc[p] \in {"idle", "opened"}
    /\ OpenSessions(p) # {}
    /\ g_data' = [i \in 0..(BufSize - 1) |->
                    IF i \in {0, 2} THEN 104
                    ELSE IF i \in {1, 3} THEN 97
                    ELSE IF i = 4 THEN 0 ELSE g_data[i]]
    /\ UNCHANGED <<modVars, g_data_size, g_mutex, g_lock, lastWrite, mapVars,
                   pc, callVars>>

\* memcpy(buf, "haha", 4); buf[4] = 0; through an open mapping.  A mapping
\* made while g_data2 is NULL does not reach the page.
map_store(p) ==
    /\ pc[p] \in {"idle", "opened"}
    /\ OpenSessions(p) # {}
    /\ page_mem' = IF g_data2 = "PAGE" THEN "haha" ELSE page_mem
    /\ UNCHANGED <<modVars, bufVars, sess, pc, callVars>>

\* ------------------------------------------------------- specification
Init ==
    /\ mod = "unloaded"
    /\ init_fail = 0
    /\ init_ret = 0
    /\ acq = <<>>
    /\ rel = <<>>
    /\ g_class = "NULL"
    /\ g_device = "NULL"
    /\ g_data2 = "NULL"
    /\ page_alloc = FALSE
    /\ page_mem = "none"
    /\ g_data = ZeroBuf
    /\ g_data_size = 0
    /\ g_mutex = NoProc
    /\ g_lock = 0
    /\ pc = [p \in Procs |-> "idle"]
    /\ p_size = [p \in Procs |-> 0]
    /\ req = [p \in Procs |-> 0]
    /\ result = [p \in Procs |-> 0]
    /\ ret = [p \in Procs |-> 0]
    /\ user_buf = [p \in Procs |-> <<>>]
    /\ sess = [p \in Procs |-> <<>>]
    /\ lastWrite = <<NoProc, 0>>

Next ==
    \/ hello_init
    \/ hello_cleanup
    \/ \E p \in Procs : dev_open(p)
    \/ \E p \in Procs : dev_release(p)
    \/ \E p \in Procs : sys_return(p)
    \/ \E p \in Procs : task_exit(p)
    \/ \E p \in Procs : write_call(p)
    \/ \E p \in Procs : write_lock(p)
    \/ \E p \in Procs : write_flag(p)
    \/ \E p \in Procs : write_copy(p)
    \/ \E p \in Procs : write_fault(p)
    \/ \E p \in Procs : write_term(p)
    \/ \E p \in Procs : write_size(p)
    \/ \E p \in Procs : write_unflag(p)
    \/ \E p \in Procs : write_unlock(p)
    \/ \E p \in Procs : read_call(p)
    \/ \E p \in Procs : read_lock(p)
    \/ \E p \in Procs : read_flag(p)
    \/ \E p \in Procs : read_copy(p)
    \/ \E p \in Procs : read_unflag(p)
    \/ \E p \in Procs : read_unlock(p)
    \/ \E p \in Procs : dev_poll(p)
    \/ \E p \in Procs : dev_mmap(p)
    \/ \E p \in Procs : munmap(p)
    \/ \E p \in Procs : map_store(p)

Spec == Init /\ [][Next]_vars


\* ================================================================ claims
\* Positions of dev_write and dev_read between mutex_lock and mutex_unlock.
WriteCS == {"w_flag", "w_copy", "w_term", "w_size", "w_unflag", "w_unlock"}
ReadCS == {"r_flag", "r_copy", "r_unflag", "r_unlock"}
InCS(p) == pc[p] \in WriteCS \cup ReadCS
Waiting(p) == pc[p] \in {"w_lock", "r_lock"}
InWrite(p) == pc[p] \in WriteCS \cup {"w_lock", "w_ret"}

\* No read or write holds g_mutex.
LockFree == g_mutex = NoProc

\* C1: a write called with requested length n stores exactly min(n, 31)
\* bytes: once its stores are done (and before it unlocks) g_data holds the
\* first min(n, 31) payload bytes followed by a 0, g_data_size is min(n, 31),
\* and the call returns min(n, 31).
C1_WriteStoresCapped ==
    \A p \in Procs :
        LET n == Min(req[p], MaxWrite) IN
        /\ InWrite(p) => p_size[p] = n
        /\ pc[p] \in {"w_unflag", "w_unlock"} =>
              /\ Prefix(g_data, n) = PayloadPrefix(p, n)
              /\ g_data[n] = 0
              /\ g_data_size = n
        /\ pc[p] = "w_ret" => ret[p] = n

\* A write of more than 31 bytes has stored its 31 bytes and terminator.
C1_Witness ==
    \E p \in Procs :
        /\ pc[p] = "w_unlock"
        /\ req[p] > MaxWrite
        /\ g_data_size = MaxWrite
        /\ g_data[MaxWrite] = 0
        /\ g_data[MaxWrite - 1] = PayloadByte(p, MaxWrite - 1)

\* C2: whenever no operation holds g_mutex, the stored bytes and length are
\* those of one single completed write (the last to unlock), or the initial
\* empty buffer: never a mix of two payloads.
C2_NoMixedBuffer ==
    LockFree =>
        IF lastWrite[1] = NoProc
        THEN g_data_size = 0 /\ g_data = ZeroBuf
        ELSE /\ g_data_size = lastWrite[2]
             /\ Prefix(g_data, g_data_size)
                  = PayloadPrefix(lastWrite[1], lastWrite[2])

\* Two writers were inside dev_write at once and both have completed,
\* leaving a non-empty buffer.
C2_Witness ==
    /\ LockFree
    /\ \A p \in Procs : pc[p] = "w_ret"
    /\ \E p \in Procs : \E q \in Procs \ {p} : ret[p] = MaxWrite /\ ret[q] = 1
    /\ g_data_size > 0

\* C3 as stated: a read that follows a completed write of k bytes stores
\* exactly those k bytes in the caller's memory, whatever length the caller
\* asked for.
C3_Original ==
    \A p \in Procs :
        (pc[p] \in {"r_unflag", "r_unlock"} /\ lastWrite[1] # NoProc) =>
            user_buf[p] = PayloadPrefix(lastWrite[1], lastWrite[2])

\* C3 amended: a read that follows a completed write of k bytes and whose
\* copy_to_user reports no fault stores exactly those k bytes in the
\* caller's memory, whatever length the caller asked for; with a fault it
\* stores the bytes before the fault (k minus the residual).
C3_ReadDeliversWrite ==
    \A p \in Procs :
        (pc[p] \in {"r_unflag", "r_unlock"} /\ lastWrite[1] # NoProc) =>
            /\ result[p] = 0 =>
                 user_buf[p] = PayloadPrefix(lastWrite[1], lastWrite[2])
            /\ user_buf[p]
                 = PayloadPrefix(lastWrite[1], lastWrite[2] - result[p])

\* A reader that asked for 1 byte has received all 31 stored bytes.
C3_Witness ==
    \E p \in Procs :
        /\ pc[p] = "r_unflag"
        /\ result[p] = 0
        /\ req[p] < lastWrite[2]
        /\ lastWrite[2] = MaxWrite
        /\ Len(user_buf[p]) = MaxWrite

\* C4: at most one read or write is between mutex_lock and mutex_unlock, it
\* is the holder of g_mutex, and every other caller of read or write is
\* still before its mutex_lock.
C4_MutualExclusion ==
    /\ Cardinality({p \in Procs : InCS(p)}) <= 1
    /\ \A p \in Procs : InCS(p) => g_mutex = p
    /\ \A p \in Procs : (Waiting(p) /\ ~LockFree) => g_mutex # p

\* One caller is inside the critical section while another waits for it.
C4_Witness ==
    \E p \in Procs : \E q \in Procs \ {p} :
        /\ pc[p] = "w_copy"
        /\ pc[q] = "r_lock"
        /\ g_mutex = p


\* The readiness poll is specified to report for a stored length and a busy
\* flag: readable iff length > 0, writable iff not busy.
Readiness(size, lock) ==
    (IF size > 0 THEN POLLIN ELSE 0) + (IF lock = 0 THEN POLLOUT ELSE 0)

\* C5: for every stored length and busy flag, poll reports both flags
\* independently: readable iff length > 0 and writable iff not busy.
C5_PollBothFlags ==
    [][\A p \in Procs :
         dev_poll(p) => ret'[p] = Readiness(g_data_size, g_lock)]_vars

\* C6 as stated: a mapping request larger than one page is rejected without
\* opening a session, and every request of at most one page is accepted and
\* opens a session.
C6_Original ==
    [][\A p \in Procs :
         dev_mmap(p) =>
            IF req'[p] > PAGE_SIZE
            THEN ret'[p] < 0 /\ sess' = sess
            ELSE /\ ret'[p] = 0
                 /\ sess'[p] = Append(sess[p],
                       [state |-> "Open", opens |-> 1, closes |-> 0])]_vars

\* C6 amended: a mapping request larger than one page is rejected without
\* calling remap_pfn_range, opening a session or running the on-open
\* callback; a request of at most one page is accepted, opens a session and
\* runs the on-open callback once, when remap_pfn_range succeeds, and is
\* rejected the same way when remap_pfn_range fails.
C6_MapSizeCheck ==
    [][\A p \in Procs :
         dev_mmap(p) =>
            IF req'[p] > PAGE_SIZE
            THEN ret'[p] < 0 /\ sess' = sess /\ result'[p] = result[p]
            ELSE IF result'[p] = 0
            THEN /\ ret'[p] = 0
                 /\ sess'[p] = Append(sess[p],
                       [state |-> "Open", opens |-> 1, closes |-> 0])
                 /\ \A q \in Procs \ {p} : sess'[q] = sess[q]
            ELSE ret'[p] < 0 /\ sess' = sess]_vars

\* A request for exactly one page has been accepted and its session is open,
\* while another process's request for one page plus one byte was rejected.
C6_Witness ==
    \E p \in Procs : \E q \in Procs \ {p} :
        /\ pc[p] = "mmap_ret"
        /\ req[p] = PAGE_SIZE
        /\ ret[p] = 0
        /\ OpenSessions(p) # {}
        /\ pc[q] = "mmap_ret"
        /\ req[q] = PAGE_SIZE + 1
        /\ ret[q] < 0
        /\ sess[q] = <<>>

\* C7: hello_init returns a negative result whenever one of its steps
\* failed, and returns success only when every step succeeded.
C7_InitReportsFailure ==
    /\ init_fail # 0 => init_ret < 0
    /\ (acq # <<>> /\ init_ret = 0) => init_fail = 0

\* C8: when hello_init returns after a fault, it has released exactly the
\* resources it had acquired, in the reverse of the order of acquisition.
C8_InitUnwinds ==
    [][(hello_init /\ init_fail' # 0) => rel' = Reverse(acq')]_vars

\* C9: the page is allocated at most once per service start and released at
\* most once, and an open mapping session always points at an allocated page.
C9_OpenSessionHasPage ==
    /\ Count(acq, "page") <= 1
    /\ Count(rel, "page") <= 1
    /\ \A p \in Procs :
          OpenSessions(p) # {} => (g_data2 = "PAGE" /\ page_alloc)

\* C10: whenever no operation holds g_mutex, 0 <= g_data_size <= 31 and
\* g_data[g_data_size] = 0.
C10_LengthAndTerminator ==
    LockFree =>
        /\ g_data_size \in 0..MaxWrite
        /\ g_data_size < BufSize
        /\ g_data[g_data_size] = 0

\* After a 31-byte write, a 1-byte write, a poll, an accepted map request
\* and a session close, the lock is free and the buffer holds 1 byte.
C10_Witness ==
    /\ LockFree
    /\ g_data_size = 1
    /\ g_data[MaxWrite - 1] # 0
    /\ \E p \in Procs : pc[p] = "poll_ret"
    /\ \E p \in Procs : \E k \in 1..Len(sess[p]) : sess[p][k].state = "Closed"

\* Whether a poll result carries a flag.
HasFlag(mask, flag) == (mask \div flag) % 2 = 1

\* C11: a read that has returned reports whether its copy succeeded: when
\* the copy stored every byte the return value is the number of bytes
\* transferred (the stored length), when bytes were left uncopied it is a
\* failure result (negative); either way the caller no longer holds g_mutex.
C11_ReadResult ==
    \A p \in Procs :
        pc[p] = "r_ret" =>
            /\ g_mutex # p
            /\ IF result[p] = 0
               THEN ret[p] = Len(user_buf[p])
               ELSE ret[p] < 0

\* C12: g_lock is 1 only while g_mutex is held by a read or write (so it is
\* 0 whenever g_mutex is free), and a poll returns a result without POLLOUT
\* only while g_mutex is held.
C12_BusyImpliesLocked ==
    /\ [](g_lock \in {0, 1} /\ (g_lock = 1 => ~LockFree))
    /\ [][\A p \in Procs :
            (dev_poll(p) /\ ~HasFlag(ret'[p], POLLOUT)) => ~LockFree]_vars

\* A poll has reported not writable while a writer is between its lock and
\* its unlock with g_lock set.
C12_Witness ==
    \E p \in Procs : \E q \in Procs \ {p} :
        /\ pc[p] = "w_copy"
        /\ g_mutex = p
        /\ g_lock = 1
        /\ pc[q] = "poll_ret"
        /\ ~HasFlag(ret[q], POLLOUT)

\* The payload of the most recent write that has released g_mutex, or the
\* empty payload of the initial buffer.
CommittedPayload ==
    IF lastWrite[1] = NoProc THEN <<>>
    ELSE PayloadPrefix(lastWrite[1], lastWrite[2])

\* While a read is between its mutex_lock and its mutex_unlock no write is
\* in progress and no step changes the stored bytes, the stored length or
\* the most recent completed write.
ReadSeesNoWrite ==
    \A p \in Procs :
        pc[p] \in ReadCS =>
            /\ \A q \in Procs : pc[q] \notin WriteCS
            /\ UNCHANGED <<g_data, g_data_size, lastWrite>>

\* C13 as stated: every read delivers the complete payload of the most
\* recent write that released g_mutex before the read locked it (or the
\* initial empty buffer), never bytes of a write in progress and never the
\* bytes of one write with the length of another.
C13_Original ==
    [][/\ ReadSeesNoWrite
       /\ \A p \in Procs :
            read_copy(p) => user_buf'[p] = CommittedPayload]_vars

\* C13 amended: every read delivers bytes of the most recent write that
\* released g_mutex before the read locked it (or of the initial empty
\* buffer) and of no other write: the complete payload when copy_to_user
\* reports no fault, and its first k - r bytes when r bytes were left.
C13_Linearizable ==
    [][/\ ReadSeesNoWrite
       /\ \A p \in Procs :
            read_copy(p) =>
               /\ result'[p] \in 0..Len(CommittedPayload)
               /\ user_buf'[p]
                    = SubSeq(CommittedPayload, 1,
                             Len(CommittedPayload) - result'[p])
               /\ result'[p] = 0 => user_buf'[p] = CommittedPayload]_vars

\* After a 31-byte write and a later 1-byte write by another caller, a read
\* has delivered the 1 byte of the later write while the bytes of the older
\* write are still in g_data and a new write waits for g_mutex.
C13_Witness ==
    \E p \in Procs : \E q \in Procs \ {p} :
        /\ pc[p] = "r_unflag"
        /\ result[p] = 0
        /\ lastWrite = <<q, 1>>
        /\ user_buf[p] = PayloadPrefix(q, 1)
        /\ g_data[MaxWrite - 1] = PayloadByte(p, MaxWrite - 1)
        /\ pc[q] = "w_lock"

\* C14: a caller that is free to call poll can always complete it, whoever
\* holds g_mutex, and the poll changes neither g_mutex nor g_data,
\* g_data_size, g_lock, the page or the mapping sessions.
C14_PollNeverWaits ==
    /\ [](\A p \in Procs : pc[p] = "opened" => ENABLED dev_poll(p))
    /\ [][\A p \in Procs :
            dev_poll(p) =>
               UNCHANGED <<g_mutex, g_data, g_data_size, g_lock, lastWrite,
                           page_mem, sess>>]_vars

\* A poll has returned POLLIN alone, which it does only when it read
\* g_lock = 1, and the reader that holds g_mutex is still inside its
\* critical section.
C14_Witness ==
    \E p \in Procs : \E q \in Procs \ {p} :
        /\ pc[p] = "r_copy"
        /\ g_mutex = p
        /\ pc[q] = "poll_ret"
        /\ ret[q] = POLLIN

\* A session as munmap leaves it.
ClosedFrom(s) == [s EXCEPT !.state = "Closed", !.closes = s.closes + 1]

C16_WriteFaultAborts ==
    [][\A p \in Procs :
         write_fault(p) =>
            /\ pc'[p] = "w_ret"
            /\ ret'[p] < 0
            /\ g_data' = g_data
            /\ g_data_size' = g_data_size]_vars

\* C17: every read and every write that locks g_mutex unlocks it and resets
\* g_lock on every path: g_mutex is held only by a read or write that is
\* still on its way to mutex_unlock (so the holder's next step frees it and
\* no caller waits forever), an operation that has ended holds nothing, and
\* g_lock is 0 whenever g_mutex is free.
C17_LockAlwaysReleased ==
    /\ ~LockFree => (g_mutex \in Procs /\ InCS(g_mutex))
    /\ \A p \in Procs : ~InCS(p) => g_mutex # p
    /\ LockFree => g_lock = 0

\* The steps of dev_read and of dev_write, a faulting copy included.
ReadStep(p) ==
    \/ read_call(p) \/ read_lock(p) \/ read_flag(p) \/ read_copy(p)
    \/ read_unflag(p) \/ read_unlock(p)

WriteStep(p) ==
    \/ write_call(p) \/ write_lock(p) \/ write_flag(p) \/ write_copy(p)
    \/ write_fault(p) \/ write_term(p) \/ write_size(p) \/ write_unflag(p)
    \/ write_unlock(p)

\* C18: a map request (accepted or rejected), a session close and a store
\* through an open mapping never lock g_mutex and leave g_data, g_data_size
\* and g_lock unchanged; the steps of a read and of a write leave the page
\* content and the mapping sessions unchanged.
C18_FrameIndependence ==
    [][\A p \in Procs :
         /\ (dev_mmap(p) \/ munmap(p) \/ map_store(p)) =>
               UNCHANGED <<g_mutex, g_data, g_data_size, g_lock>>
         /\ (ReadStep(p) \/ WriteStep(p)) =>
               UNCHANGED <<page_mem, sess>>]_vars

\* A caller has stored through its open mapping and another caller's map
\* request was rejected, while a write that holds g_mutex has copied its 31
\* bytes.
C18_Witness ==
    \E p \in Procs : \E q \in Procs \ {p} :
        /\ pc[p] = "w_term"
        /\ g_mutex = p
        /\ Prefix(g_data, MaxWrite) = PayloadPrefix(p, MaxWrite)
        /\ page_mem = "haha"
        /\ OpenSessions(p) # {}
        /\ pc[q] = "mmap_ret"
        /\ ret[q] = -EAGAIN

\* C19: a read does not consume the buffer: no step of a read changes
\* g_data or g_data_size, what a read copies out is what any later read
\* with no write in between copies out, and a poll made after a read of a
\* non-empty buffer has returned still reports POLLIN.
C19_ReadKeepsBuffer ==
    [][\A p \in Procs :
         /\ ReadStep(p) => UNCHANGED <<g_data, g_data_size, lastWrite>>
         /\ read_copy(p) =>
               user_buf'[p] = Prefix(g_data', g_data_size' - result'[p])
         /\ (/\ dev_poll(p)
             /\ g_data_size > 0
             /\ \E q \in Procs \ {p} :
                   pc[q] = "r_ret" /\ Len(user_buf[q]) > 0) =>
               HasFlag(ret'[p], POLLIN)]_vars

====
